---- MODULE Spec2Model ----
(***************************************************************************)
(* A model of src/app.py: a Flask gateway in front of an InfluxDB engine.  *)
(*                                                                         *)
(* The process runs find_or_create_bucket(bucket_name) at startup and then *)
(* serves requests; every request handler is a sequence of calls to the    *)
(* engine (the collaborator).  One action of the model is one such call    *)
(* together with the handler's own code up to the next call or the return. *)
(* Requests are handled by concurrent threads, so the calls of different   *)
(* requests interleave.                                                    *)
(*                                                                         *)
(* Python strings are sequences of lexical tokens, so that str.format and  *)
(* the shape of the text it produces are computed, not assumed.  A JSON    *)
(* value is a record [t, v]: its Python type and its text.                 *)
(***************************************************************************)
EXTENDS Integers, Sequences, FiniteSets, TLC

VARIABLES
    main,        \* position of the main thread: find, create, serving, exited, crashed, aborted
    mainFind,    \* status the startup find_bucket_by_name met (0: not called yet)
    mainCreate,  \* status the startup create_bucket met (0: not called)
    buckets,     \* engine: the buckets it holds, a sequence of [name, rp]
    points,      \* engine: the points written to it
    tasks,       \* engine: the task inventory, a sequence of [id, name, status, runs]
    req,         \* the request each handler thread is working on
    started,     \* number of requests received so far
    ticks        \* number of steps the engine's scheduler and operator have taken

vars == <<main, mainFind, mainCreate, buckets, points, tasks, req, started, ticks>>

(***************************************************************************)
(* Bounds of the model.                                                    *)
(***************************************************************************)
MaxRequests == 3
MaxTasks == 2
MaxEngineSteps == 4

Threads == {"t1", "t2"}

(***************************************************************************)
(* Values.                                                                 *)
(***************************************************************************)
QUOTE == "\""

Str(toks) == [t |-> "str", v |-> toks]
Num(toks) == [t |-> "num", v |-> toks]
PyInt(toks) == [t |-> "int", v |-> toks]
Missing == [t |-> "missing", v |-> <<>>]
NoneVal == [t |-> "none", v |-> <<>>]

\* Python's ==: values of different types are never equal.
PyEq(a, b) == a.t = b.t /\ a.v = b.v

User1 == Str(<<"user1">>)
User2 == Str(<<"user2">>)
\* a tenant id carrying Flux syntax: x") |> drop() //
UserInj == Str(<<"x", QUOTE, ") |> drop() //">>)

UserIds == {User1, User2, UserInj}

bucket_name == <<"raw_data_bucket">>
SinkBucket == <<"processed_data_bucket">>

\* whether sub occurs in s as a contiguous run of tokens
IsSubstring(sub, s) ==
    \E i \in 1..(Len(s) - Len(sub) + 1) : SubSeq(s, i, i + Len(sub) - 1) = sub

(***************************************************************************)
(* The engine (InfluxDB), as the handlers see it.                          *)
(***************************************************************************)
DefaultRp == "default"

HasBucket(name) == \E i \in 1..Len(buckets) : buckets[i].name = name

CountBuckets(name) == Cardinality({i \in 1..Len(buckets) : buckets[i].name = name})

\* statuses with which the engine may refuse any call: no permission, upstream failure
EngineFaults == {401, 500}

\* find_bucket_by_name: raises ApiException(404) for an unknown name
EngineFindAnswers(name) == (IF HasBucket(name) THEN {200} ELSE {404}) \cup EngineFaults

\* create_bucket: bucket names are unique; a duplicate is refused with 422
EngineCreateAnswers(name) == (IF HasBucket(name) THEN {422} ELSE {201}) \cup EngineFaults

EngineCreated(name, status) ==
    IF status = 201 THEN Append(buckets, [name |-> name, rp |-> DefaultRp]) ELSE buckets

\* write: 204 when the bucket exists, 404 when it does not
EngineWriteAnswers(name) == (IF HasBucket(name) THEN {204} ELSE {404}) \cup EngineFaults

\* query, query_data_frame: 200 when the bucket exists, 404 when it does not
EngineQueryAnswers(name) == (IF HasBucket(name) THEN {200} ELSE {404}) \cup EngineFaults

\* the usage query and find_tasks
EngineReadAnswers == {200} \cup EngineFaults

\* POST /api/v2/tasks
EnginePostTaskAnswers == (IF Len(tasks) < MaxTasks THEN {201} ELSE {}) \cup EngineFaults

\* the run history of task id, newest first
EngineHistory(id) ==
    LET found == {i \in 1..Len(tasks) : tasks[i].id = id}
    IN  IF found = {} THEN <<>> ELSE tasks[CHOOSE i \in found : TRUE].runs

\* get_runs(id, limit): the most recent runs of the task, newest first
EngineRuns(id, limit) ==
    LET rs == EngineHistory(id)
    IN  SubSeq(rs, 1, IF Len(rs) < limit THEN Len(rs) ELSE limit)

(***************************************************************************)
(* What a handler hands back.                                              *)
(*   kind: pending | return | none (the view returned None) |              *)
(*         raise (an exception left the view) | exit (SystemExit)          *)
(***************************************************************************)
Ret(kind, status, body, detail) ==
    [kind |-> kind, status |-> status, body |-> body, detail |-> detail]

Pending == Ret("pending", 0, "", <<>>)
Return(status, body, detail) == Ret("return", status, body, detail)
ReturnsNone == Ret("none", 0, "", <<>>)
Raise(exc, status) == Ret("raise", status, exc, <<>>)
SystemExit == Ret("exit", 0, "SystemExit", <<>>)

NoPoint == [built |-> FALSE, measurement |-> Missing, field1 |-> Missing, user_id |-> Missing]
NoParams == [bucket_name |-> <<>>, user_id |-> Missing]
NoSent == [submitted |-> FALSE, body |-> <<>>, params |-> NoParams]
Sent(body, params) == [submitted |-> TRUE, body |-> body, params |-> params]

\* a call made to the engine; seen is the run history the engine held when a
\* get_runs call arrived
Call(op, arg, limit) == [op |-> op, arg |-> arg, limit |-> limit, seen |-> <<>>]

Payload(u, m, f) == [user_id |-> u, measurement |-> m, field1 |-> f]

Idle ==
    [kind |-> "idle", pc |-> "idle", payload |-> Payload(Missing, Missing, Missing),
     findRes |-> 0, createRes |-> 0, calls |-> <<>>, sent |-> NoSent,
     point |-> NoPoint, writeRes |-> 0, data |-> {}, usage |-> <<>>,
     snapshot |-> <<>>, rows |-> <<>>, ret |-> Pending]

NewReq(kind, pc, payload) == [Idle EXCEPT !.kind = kind, !.pc = pc, !.payload = payload]

Free(t) == req[t].pc \in {"idle", "done"}

Done(r, ret) == [r EXCEPT !.pc = "done", !.ret = ret]

Called(r, op, arg, limit) == [r EXCEPT !.calls = Append(@, Call(op, arg, limit))]

(***************************************************************************)
(* find_or_create_bucket                                                   *)
(***************************************************************************)
\* the except branch without the exit on 401
OnFindError_NoExit(status) == IF status = 404 THEN "create" ELSE "return"

\* the except branch without the create on 404
OnFindError_NoCreate(status) == IF status = 401 THEN "exit" ELSE "return"

\* the except branch: what follows an ApiException of find_bucket_by_name
OnFindError(status) ==
    IF status = 404 THEN "create"
    ELSE IF status = 401 THEN "exit"
    ELSE "return"

\* a find_or_create_bucket that creates whatever the lookup answered
AfterFind_AlwaysCreate(status) == IF status = 200 THEN "create" ELSE OnFindError(status)

\* what follows find_bucket_by_name
AfterFind(status) == IF status = 200 THEN "return" ELSE OnFindError(status)

\* exit() in a request thread raises SystemExit, which Flask does not catch:
\* the single-threaded server lets it end the process, the threaded server
\* lets it end the request's thread without a response
SystemExitOutcomes == {"process", "thread"}

(***************************************************************************)
(* Startup: find_or_create_bucket(bucket_name), then app.run                *)
(***************************************************************************)
StartupFind ==
    /\ main = "find"
    /\ \E s \in EngineFindAnswers(bucket_name) :
          /\ mainFind' = s
          /\ main' = CASE AfterFind(s) = "create" -> "create"
                       [] AfterFind(s) = "exit" -> "exited"
                       [] OTHER -> "serving"
    /\ UNCHANGED <<mainCreate, buckets, points, tasks, req, started, ticks>>

StartupCreate ==
    /\ main = "create"
    /\ \E s \in EngineCreateAnswers(bucket_name) :
          /\ mainCreate' = s
          /\ buckets' = EngineCreated(bucket_name, s)
          \* an ApiException of create_bucket is not caught: the process dies
          /\ main' = IF s = 201 THEN "serving" ELSE "crashed"
    /\ UNCHANGED <<mainFind, points, tasks, req, started, ticks>>

(***************************************************************************)
(* POST /tasks                                                             *)
(***************************************************************************)
\* str.format: each {} takes the next argument, {{ and }} are braces
RECURSIVE Format(_, _)
Format(template, args) ==
    IF template = <<>> THEN <<>>
    ELSE LET h == Head(template)
         IN  CASE h = "{}" -> Head(args) \o Format(Tail(template), Tail(args))
               [] h = "{{" -> <<"{">> \o Format(Tail(template), args)
               [] h = "}}" -> <<"}">> \o Format(Tail(template), args)
               [] OTHER -> <<h>> \o Format(Tail(template), args)

TaskTemplate ==
    << "option task = ", "{{", "name: ", QUOTE, "{}", "_task", QUOTE, ", every: 1m", "}}",
       " from(bucket: ", QUOTE, "{}", QUOTE, ")",
       " |> range(start: -1m)",
       " |> filter(fn: (r) => r.user_id == ", QUOTE, "{}", QUOTE, ")",
       " |> filter(fn: (r) => r._value == 0.0)",
       " |> to(bucket: ", QUOTE, "processed_data_bucket", QUOTE, ")" >>

\* q = query.format(user_id, bucket_name, user_id)
TaskFlux(user_id) == Format(TaskTemplate, <<user_id.v, bucket_name, user_id.v>>)

TaskData(user_id) == Sent(TaskFlux(user_id), NoParams)

TaskResponse(status, id) ==
    IF status = 201 THEN Return(201, "task_id", <<id>>)
    ELSE Return(status, "text", <<>>)

EnginePosted(user_id, status) ==
    IF status = 201
    THEN Append(tasks, [id |-> Len(tasks) + 1, name |-> user_id.v \o <<"_task">>,
                        status |-> "active", runs |-> <<>>])
    ELSE tasks

ReceiveTasks(t) ==
    /\ main = "serving"
    /\ Free(t)
    /\ started < MaxRequests
    /\ \E u \in UserIds \cup {Missing} :
          req' = [req EXCEPT ![t] = NewReq("tasks", "find", Payload(u, Missing, Missing))]
    /\ started' = started + 1
    /\ UNCHANGED <<main, mainFind, mainCreate, buckets, points, tasks, ticks>>

\* find_or_create_bucket("processed_data_bucket"): the lookup
TasksFind(t) ==
    /\ main = "serving"
    /\ req[t].kind = "tasks" /\ req[t].pc = "find"
    /\ \E s \in EngineFindAnswers(SinkBucket), o \in SystemExitOutcomes :
          LET r == [Called(req[t], "find_bucket", SinkBucket, 0) EXCEPT !.findRes = s]
          IN  CASE AfterFind(s) = "create" ->
                     /\ req' = [req EXCEPT ![t] = [r EXCEPT !.pc = "create"]]
                     /\ main' = main
                [] AfterFind(s) = "exit" ->
                     /\ req' = [req EXCEPT ![t] = Done(r, SystemExit)]
                     /\ main' = IF o = "process" THEN "aborted" ELSE main
                [] OTHER ->
                     /\ req' = [req EXCEPT ![t] = [r EXCEPT !.pc = "post"]]
                     /\ main' = main
    /\ UNCHANGED <<mainFind, mainCreate, buckets, points, tasks, started, ticks>>

\* find_or_create_bucket("processed_data_bucket"): create_bucket in the except branch
TasksCreate(t) ==
    /\ main = "serving"
    /\ req[t].kind = "tasks" /\ req[t].pc = "create"
    /\ \E s \in EngineCreateAnswers(SinkBucket) :
          LET r == [Called(req[t], "create_bucket", SinkBucket, 0) EXCEPT !.createRes = s]
          IN  /\ buckets' = EngineCreated(SinkBucket, s)
              /\ req' = [req EXCEPT ![t] =
                            IF s = 201 THEN [r EXCEPT !.pc = "post"]
                            ELSE Done(r, Raise("ApiException", s))]
    /\ UNCHANGED <<main, mainFind, mainCreate, points, tasks, started, ticks>>

\* the rest of the handler: render the task and post it
TasksPost(t) ==
    /\ main = "serving"
    /\ req[t].kind = "tasks" /\ req[t].pc = "post"
    /\ LET u == req[t].payload.user_id
       IN  IF u = Missing
           THEN /\ req' = [req EXCEPT ![t] = Done(@, Raise("KeyError", 0))]
                /\ tasks' = tasks
           ELSE \E s \in EnginePostTaskAnswers :
                   LET r == [Called(req[t], "post_task", <<>>, 0) EXCEPT !.sent = TaskData(u)]
                   IN  /\ tasks' = EnginePosted(u, s)
                       /\ req' = [req EXCEPT ![t] = Done(r, TaskResponse(s, Len(tasks) + 1))]
    /\ UNCHANGED <<main, mainFind, mainCreate, buckets, points, started, ticks>>

(***************************************************************************)
(* POST /ingest                                                            *)
(***************************************************************************)
Measurement1 == Str(<<"measurement1">>)

IngestPayloads ==
    { Payload(u, m, f) : u \in {Missing, User1}, m \in {Missing, Measurement1},
                         f \in {Missing, Num(<<"1.0">>), Str(<<"abc">>)} }

\* request.json[key] raises KeyError for an absent key
HasKeys(p) == p.user_id # Missing /\ p.measurement # Missing /\ p.field1 # Missing

\* Point(measurement).field("field1", value).tag("user_id", user_id); the
\* timestamp (utcnow, ns) is left out of the model
IngestPoint(p) ==
    [built |-> TRUE, measurement |-> p.measurement, field1 |-> p.field1, user_id |-> p.user_id]

\* the except branch: e.response.status is the HTTP library's integer status
IngestOnWriteError(s) ==
    LET status == PyInt(<<ToString(s)>>)
    IN  IF PyEq(status, Str(<<"401">>))
        THEN Return(s, "error", <<"Insufficent permissions">>)
        ELSE IF PyEq(status, Str(<<"404">>))
        THEN Return(s, "error", <<"Bucket ">> \o bucket_name \o <<" does not exist">>)
        ELSE ReturnsNone

IngestResponse(s) ==
    IF s = 204 THEN Return(200, "result", <<"data accepted for processing">>)
    ELSE IngestOnWriteError(s)

ReceiveIngest(t) ==
    /\ main = "serving"
    /\ Free(t)
    /\ started < MaxRequests
    /\ \E p \in IngestPayloads :
          req' = [req EXCEPT ![t] =
                    IF HasKeys(p)
                    THEN [NewReq("ingest", "write", p) EXCEPT !.point = IngestPoint(p)]
                    ELSE Done(NewReq("ingest", "write", p), Raise("KeyError", 0))]
    /\ started' = started + 1
    /\ UNCHANGED <<main, mainFind, mainCreate, buckets, points, tasks, ticks>>

\* write_api.write(bucket_name, organization_name, point) and the return
IngestWrite(t) ==
    /\ main = "serving"
    /\ req[t].kind = "ingest" /\ req[t].pc = "write"
    /\ \E s \in EngineWriteAnswers(bucket_name) :
          LET r == [Called(req[t], "write", bucket_name, 0) EXCEPT !.writeRes = s]
          IN  /\ points' = IF s = 204 THEN points \cup {req[t].point} ELSE points
              /\ req' = [req EXCEPT ![t] = Done(r, IngestResponse(s))]
    /\ UNCHANGED <<main, mainFind, mainCreate, buckets, tasks, started, ticks>>

(***************************************************************************)
(* POST /query and GET /visualize                                          *)
(***************************************************************************)
QueryText ==
    << "from(bucket: ", "bucket_name", ") |> range(start: -1h)",
       " |> filter(fn: (r) => r.user_id == ", "user_id", ")" >>

\* the same query with the values written into its text
QueryTemplate ==
    << "from(bucket: ", QUOTE, "{}", QUOTE, ") |> range(start: -1h)",
       " |> filter(fn: (r) => r.user_id == ", QUOTE, "{}", QUOTE, ")" >>

BuildQuery_Interpolated(user_id) ==
    Sent(Format(QueryTemplate, <<bucket_name, user_id.v>>), NoParams)

\* params = {"bucket_name": bucket_name, "user_id": user_id}; query = "from(...)..."
BuildQuery(user_id) ==
    Sent(QueryText, [bucket_name |-> bucket_name, user_id |-> user_id])

\* the engine's evaluation of the tenant filter over the last hour
EngineSelect(params) == {p \in points : PyEq(p.user_id, params.user_id)}

ReceiveQuery(t) ==
    /\ main = "serving"
    /\ Free(t)
    /\ started < MaxRequests
    /\ \E u \in UserIds \cup {Missing} :
          LET r == NewReq("query", "query", Payload(u, Missing, Missing))
          IN  req' = [req EXCEPT ![t] = IF u = Missing THEN Done(r, Raise("KeyError", 0)) ELSE r]
    /\ started' = started + 1
    /\ UNCHANGED <<main, mainFind, mainCreate, buckets, points, tasks, ticks>>

\* query_api.query(query, org=organization_name, params=params); an ApiException is not caught
QueryCall(t) ==
    /\ main = "serving"
    /\ req[t].kind = "query" /\ req[t].pc = "query"
    /\ \E s \in EngineQueryAnswers(bucket_name) :
          LET q == BuildQuery(req[t].payload.user_id)
              r == [Called(req[t], "query", bucket_name, 0) EXCEPT !.sent = q]
          IN  req' = [req EXCEPT ![t] =
                        IF s = 200
                        THEN Done([r EXCEPT !.data = EngineSelect(q.params)],
                                  Return(200, "json", <<>>))
                        ELSE Done(r, Raise("ApiException", s))]
    /\ UNCHANGED <<main, mainFind, mainCreate, buckets, points, tasks, started, ticks>>

\* request.args.get("user_name") is None when the argument is absent
ReceiveVisualize(t) ==
    /\ main = "serving"
    /\ Free(t)
    /\ started < MaxRequests
    /\ \E u \in UserIds \cup {NoneVal} :
          req' = [req EXCEPT ![t] = NewReq("visualize", "frame", Payload(u, Missing, Missing))]
    /\ started' = started + 1
    /\ UNCHANGED <<main, mainFind, mainCreate, buckets, points, tasks, ticks>>

\* query_api.query_data_frame(query, organization_name, params=params), then px.line,
\* which raises ValueError for a frame without the _time and _value columns
VisualizeCall(t) ==
    /\ main = "serving"
    /\ req[t].kind = "visualize" /\ req[t].pc = "frame"
    /\ \E s \in EngineQueryAnswers(bucket_name) :
          LET q == BuildQuery(req[t].payload.user_id)
              r == [Called(req[t], "query_data_frame", bucket_name, 0) EXCEPT !.sent = q]
              frame == EngineSelect(q.params)
          IN  req' = [req EXCEPT ![t] =
                        IF s # 200 THEN Done(r, Raise("ApiException", s))
                        ELSE IF frame = {} THEN Done(r, Raise("ValueError", 0))
                        ELSE Done([r EXCEPT !.data = frame], Return(200, "html", <<>>))]
    /\ UNCHANGED <<main, mainFind, mainCreate, buckets, points, tasks, started, ticks>>

(***************************************************************************)
(* GET /monitor                                                            *)
(***************************************************************************)
RunsLimit == 1

UsageResults == { <<>>, <<[mes |-> "storage_usage_bucket_bytes", val |-> "1.0"]>> }

\* a task as find_tasks lists it
Listed(task) == [id |-> task.id, name |-> task.name, status |-> task.status]

RECURSIVE ListTasks(_)
ListTasks(ts) == IF ts = <<>> THEN <<>> ELSE <<Listed(Head(ts))>> \o ListTasks(Tail(ts))

\* a loop that reads the run log of every task
NeedsRuns_Always(task) == TRUE

\* if task.status == "active"
NeedsRuns(task) == task.status = "active"

\* the row of a task: started_at and run_status stay "" unless runs holds a run
MonitorRow(task, runs) ==
    [name |-> task.name, status |-> task.status,
     started_at |-> IF Len(runs) > 0 THEN runs[1].started_at ELSE "",
     run_status |-> IF Len(runs) > 0 THEN runs[1].status ELSE ""]

\* the loop over the listed tasks, up to the next get_runs call or the return
RECURSIVE MonitorLoop(_)
MonitorLoop(r) ==
    LET i == Len(r.rows) + 1
    IN  IF i > Len(r.snapshot) THEN Done(r, Return(200, "html", <<>>))
        ELSE IF NeedsRuns(r.snapshot[i]) THEN [r EXCEPT !.pc = "runs"]
        ELSE MonitorLoop([r EXCEPT !.rows = Append(@, MonitorRow(r.snapshot[i], <<>>))])

ReceiveMonitor(t) ==
    /\ main = "serving"
    /\ Free(t)
    /\ started < MaxRequests
    /\ req' = [req EXCEPT ![t] = NewReq("monitor", "usage", Payload(Missing, Missing, Missing))]
    /\ started' = started + 1
    /\ UNCHANGED <<main, mainFind, mainCreate, buckets, points, tasks, ticks>>

\* query_api.query(usage query); an ApiException is not caught
MonitorUsage(t) ==
    /\ main = "serving"
    /\ req[t].kind = "monitor" /\ req[t].pc = "usage"
    /\ \E s \in EngineReadAnswers, u \in UsageResults :
          LET r == Called(req[t], "query", <<>>, 0)
          IN  req' = [req EXCEPT ![t] =
                        IF s = 200 THEN [r EXCEPT !.pc = "list", !.usage = u]
                        ELSE Done(r, Raise("ApiException", s))]
    /\ UNCHANGED <<main, mainFind, mainCreate, buckets, points, tasks, started, ticks>>

\* tasks_api.find_tasks(), then the loop up to its first get_runs
MonitorList(t) ==
    /\ main = "serving"
    /\ req[t].kind = "monitor" /\ req[t].pc = "list"
    /\ \E s \in EngineReadAnswers :
          LET r == Called(req[t], "find_tasks", <<>>, 0)
          IN  req' = [req EXCEPT ![t] =
                        IF s = 200 THEN MonitorLoop([r EXCEPT !.snapshot = ListTasks(tasks)])
                        ELSE Done(r, Raise("ApiException", s))]
    /\ UNCHANGED <<main, mainFind, mainCreate, buckets, points, tasks, started, ticks>>

\* tasks_api.get_runs(task.id, limit=1), the task's row, and the loop up to the next call
MonitorRuns(t) ==
    /\ main = "serving"
    /\ req[t].kind = "monitor" /\ req[t].pc = "runs"
    /\ \E s \in EngineReadAnswers :
          LET task == req[t].snapshot[Len(req[t].rows) + 1]
              call == [Call("get_runs", <<task.id>>, RunsLimit) EXCEPT
                          !.seen = EngineHistory(task.id)]
              r == [req[t] EXCEPT !.calls = Append(@, call)]
              runs == EngineRuns(task.id, RunsLimit)
          IN  req' = [req EXCEPT ![t] =
                        IF s = 200
                        THEN MonitorLoop([r EXCEPT !.rows = Append(@, MonitorRow(task, runs))])
                        ELSE Done(r, Raise("ApiException", s))]
    /\ UNCHANGED <<main, mainFind, mainCreate, buckets, points, tasks, started, ticks>>

(***************************************************************************)
(* The engine's scheduler and its operator, which run and switch tasks     *)
(***************************************************************************)
EngineStartRun(i) ==
    /\ i \in 1..Len(tasks)
    /\ ticks < MaxEngineSteps
    /\ tasks[i].status = "active"
    /\ ~(tasks[i].runs # <<>> /\ Head(tasks[i].runs).status = "running")
    /\ tasks' = [tasks EXCEPT ![i].runs =
                    <<[status |-> "running", started_at |-> ToString(Len(@) + 1)]>> \o @]
    /\ UNCHANGED <<main, mainFind, mainCreate, buckets, points, req, started>>
    /\ ticks' = ticks + 1

EngineFinishRun(i) ==
    /\ i \in 1..Len(tasks)
    /\ ticks < MaxEngineSteps
    /\ tasks[i].runs # <<>>
    /\ Head(tasks[i].runs).status = "running"
    /\ \E s \in {"success", "failed"} :
          tasks' = [tasks EXCEPT ![i].runs = <<[Head(@) EXCEPT !.status = s]>> \o Tail(@)]
    /\ UNCHANGED <<main, mainFind, mainCreate, buckets, points, req, started>>
    /\ ticks' = ticks + 1

EngineSetStatus(i) ==
    /\ i \in 1..Len(tasks)
    /\ ticks < MaxEngineSteps
    /\ tasks' = [tasks EXCEPT ![i].status = IF @ = "active" THEN "inactive" ELSE "active"]
    /\ UNCHANGED <<main, mainFind, mainCreate, buckets, points, req, started>>
    /\ ticks' = ticks + 1

(***************************************************************************)
(* Specifications                                                          *)
(***************************************************************************)
InitialBuckets ==
    { <<>>,
      <<[name |-> bucket_name, rp |-> DefaultRp]>>,
      <<[name |-> SinkBucket, rp |-> DefaultRp]>>,
      <<[name |-> bucket_name, rp |-> DefaultRp], [name |-> SinkBucket, rp |-> DefaultRp]>> }

Init ==
    /\ main = "find"
    /\ mainFind = 0
    /\ mainCreate = 0
    /\ buckets \in InitialBuckets
    /\ points = {}
    /\ tasks = <<>>
    /\ req = [t \in Threads |-> Idle]
    /\ started = 0
    /\ ticks = 0

NextProvision ==
    \/ StartupFind
    \/ StartupCreate
    \/ \E t \in Threads : ReceiveTasks(t)
    \/ \E t \in Threads : TasksFind(t)
    \/ \E t \in Threads : TasksCreate(t)
    \/ \E t \in Threads : TasksPost(t)

SpecProvision == Init /\ [][NextProvision]_vars

NextData ==
    \/ StartupFind
    \/ StartupCreate
    \/ \E t \in Threads : ReceiveIngest(t)
    \/ \E t \in Threads : IngestWrite(t)
    \/ \E t \in Threads : ReceiveQuery(t)
    \/ \E t \in Threads : QueryCall(t)
    \/ \E t \in Threads : ReceiveVisualize(t)
    \/ \E t \in Threads : VisualizeCall(t)

SpecData == Init /\ [][NextData]_vars

\* the inventories the engine may hold when the process starts
RECURSIVE Inventories(_)
Inventories(n) ==
    IF n = 0 THEN {<<>>}
    ELSE Inventories(n - 1) \cup
         { Append(inv, [id |-> n, name |-> u.v \o <<"_task">>, status |-> st, runs |-> <<>>]) :
             inv \in {x \in Inventories(n - 1) : Len(x) = n - 1},
             u \in {User1}, st \in {"active", "inactive"} }

\* monitor requests share nothing and write nothing: one of them is followed
\* against the engine's scheduler
MonitorThreads == {"t1"}

InitMonitor ==
    /\ main = "find"
    /\ mainFind = 0
    /\ mainCreate = 0
    /\ buckets \in {<<>>, <<[name |-> bucket_name, rp |-> DefaultRp]>>}
    /\ points = {}
    /\ tasks \in Inventories(MaxTasks)
    /\ req = [t \in Threads |-> Idle]
    /\ started = 0
    /\ ticks = 0

NextMonitor ==
    \/ StartupFind
    \/ StartupCreate
    \/ \E t \in MonitorThreads : ReceiveMonitor(t)
    \/ \E t \in MonitorThreads : MonitorUsage(t)
    \/ \E t \in MonitorThreads : MonitorList(t)
    \/ \E t \in MonitorThreads : MonitorRuns(t)
    \/ \E i \in 1..MaxTasks : EngineStartRun(i)
    \/ \E i \in 1..MaxTasks : EngineFinishRun(i)
    \/ \E i \in 1..MaxTasks : EngineSetStatus(i)

SpecMonitor == InitMonitor /\ [][NextMonitor]_vars

\* the whole gateway; each specification above follows one family of requests
Next == NextProvision \/ NextData \/ NextMonitor

Spec == Init /\ [][Next]_vars

(***************************************************************************)
(* Properties                                                              *)
(***************************************************************************)
TasksReqs == {t \in Threads : req[t].kind = "tasks"}

\* an ensure call has finished once it is past its lookup and its create
MainEnsureFinished == main \notin {"find", "create"}
EnsureFinished(t) == req[t].kind = "tasks" /\ req[t].pc \in {"post", "done"}

\* the engine answered the lookup (found, not found) and the create, if any
\* (created, already exists), rather than refusing the call
Answered(findRes, createRes) == findRes \in {200, 404} /\ createRes \in {0, 201, 422}

Ops(r) == [i \in 1..Len(r.calls) |-> r.calls[i].op]

\* C1: ensure(name) is idempotent.  In every reachable state the engine holds
\* at most one bucket of each name, with the default retention policy; and
\* whenever an ensure call (the startup one for raw_data_bucket, a POST /tasks
\* one for processed_data_bucket) has finished with its lookup and create
\* answered by the engine, the engine holds exactly one bucket of that name,
\* however the calls were interleaved.
C1_EnsureIdempotent ==
    /\ \A name \in {bucket_name, SinkBucket} :
          /\ CountBuckets(name) <= 1
          /\ \A i \in 1..Len(buckets) : buckets[i].rp = DefaultRp
    /\ (MainEnsureFinished /\ Answered(mainFind, mainCreate)) => CountBuckets(bucket_name) = 1
    /\ \A t \in Threads :
          (EnsureFinished(t) /\ Answered(req[t].findRes, req[t].createRes))
              => CountBuckets(SinkBucket) = 1

\* two ensure calls raced: both saw "not found", one created the bucket, the
\* other was told it exists, and one bucket is held
C1_Witness ==
    /\ \A t \in Threads : EnsureFinished(t) /\ req[t].findRes = 404
    /\ \E t1, t2 \in Threads : req[t1].createRes = 201 /\ req[t2].createRes = 422
    /\ CountBuckets(SinkBucket) = 1
    /\ CountBuckets(bucket_name) = 1

\* C2: when two ensure calls race and the loser's create is answered "already
\* exists" (422), the loser's ensure completes normally: no exception leaves
\* the call.
C2_AlreadyExistsIsSuccess ==
    \A t \in Threads :
        (req[t].kind = "tasks" /\ req[t].createRes = 422) => req[t].ret.kind # "raise"

\* C3: a permission error (401) met while provisioning the primary bucket at
\* startup is fatal: the process is never serving, and no request is ever
\* received, in any state after it.
C3_StartupAuthErrorIsFatal ==
    (mainFind = 401 \/ mainCreate = 401)
        => /\ main \in {"exited", "crashed"}
           /\ started = 0
           /\ \A t \in Threads : req[t] = Idle

C3_Witness == mainFind = 401 /\ main = "exited"

\* C4: a permission error (401) met by ensure inside POST /tasks fails that
\* request only, with an error result: the process is not aborted and keeps
\* serving.
C4_RequestAuthErrorIsRecoverable ==
    \A t \in Threads :
        (req[t].kind = "tasks" /\ req[t].findRes = 401)
            => /\ main = "serving"
               /\ req[t].pc = "done" => req[t].ret.kind \in {"return", "raise"}

\* C5: POST /tasks.  A request whose lookup found no sink bucket submits the
\* task only after a successful create_bucket (its calls are find, create,
\* post, in that order); a request whose lookup found the bucket makes no
\* create_bucket call and the lookup raises nothing; in both cases a request
\* carrying a user id goes on to submit the task, and a 201 of the engine is
\* returned as 201 with the id of a task the engine holds.
C5_RegisterCreatesSinkFirst ==
    \A t \in TasksReqs :
        LET r == req[t]
            ensured == \/ r.findRes = 200
                       \/ r.findRes = 404 /\ r.createRes = 201
        IN  /\ (r.findRes = 404 /\ r.sent.submitted)
                  => /\ Ops(r) = <<"find_bucket", "create_bucket", "post_task">>
                     /\ r.createRes = 201
            /\ r.findRes = 200
                  => /\ r.createRes = 0
                     /\ \A i \in 1..Len(r.calls) : r.calls[i].op # "create_bucket"
                     /\ r.pc \in {"post", "done"}
                     /\ r.ret.kind = "raise" => r.ret.body = "KeyError"
                     /\ r.ret.kind # "exit"
            /\ (ensured /\ r.pc = "done" /\ r.payload.user_id # Missing)
                  => /\ r.sent.submitted
                     /\ r.ret.kind = "return"
                     /\ r.ret.status = 201
                           => \E i \in 1..Len(tasks) : <<tasks[i].id>> = r.ret.detail

\* one register call created the sink bucket and then registered its task; a
\* later one found the bucket, created nothing and registered its task
C5_Witness ==
    \E t1, t2 \in TasksReqs :
        /\ req[t1].pc = "done" /\ req[t2].pc = "done"
        /\ Ops(req[t1]) = <<"find_bucket", "create_bucket", "post_task">>
        /\ req[t1].ret.status = 201
        /\ req[t2].findRes = 200
        /\ Ops(req[t2]) = <<"find_bucket", "post_task">>
        /\ req[t2].ret.status = 201

\* C6: POST /ingest never swallows a failure of the write call: for a write
\* refused with 401, 404 or 500 the handler returns an error response with
\* that class of status and an {error} body.
C6_WriteFailureSurfaced ==
    \A t \in Threads :
        (req[t].kind = "ingest" /\ req[t].pc = "done" /\ req[t].writeRes \in {401, 404, 500})
            => /\ req[t].ret.kind = "return"
               /\ req[t].ret.status \in {401, 404, 500}
               /\ req[t].ret.body = "error"

QueryReqs == {t \in Threads : req[t].kind \in {"query", "visualize"} /\ req[t].sent.submitted}

\* C7: the query text /query and /visualize hand to the engine is the same
\* for any two tenant ids; the tenant id and the bucket name travel as the
\* bound parameters user_id and bucket_name and occur nowhere in the text.
C7_QueryTextIndependentOfTenant ==
    \A t1, t2 \in QueryReqs :
        LET u == req[t1].payload.user_id
            q == req[t1].sent
        IN  /\ q.body = req[t2].sent.body
            /\ q.params.user_id = u
            /\ q.params.bucket_name = bucket_name
            /\ u.t = "str" => ~IsSubstring(u.v, q.body)
            /\ ~IsSubstring(bucket_name, q.body)

\* a /query and a /visualize were submitted for different tenants, one of
\* them carrying Flux syntax
C7_Witness ==
    \E t1, t2 \in QueryReqs :
        /\ req[t1].kind = "query" /\ req[t2].kind = "visualize"
        /\ req[t1].payload.user_id = UserInj
        /\ req[t2].payload.user_id = User1

\* the lexical shape of a Flux text: every string literal, whatever it
\* holds, is one STRING token; an unclosed literal is an OPEN token
RECURSIVE Lex(_, _)
Lex(text, inString) ==
    IF text = <<>> THEN (IF inString THEN <<"OPEN">> ELSE <<>>)
    ELSE IF Head(text) = QUOTE
         THEN (IF inString THEN <<"STRING">> ELSE <<>>) \o Lex(Tail(text), ~inString)
         ELSE (IF inString THEN <<>> ELSE <<Head(text)>>) \o Lex(Tail(text), inString)

Structure(text) == Lex(text, FALSE)

Submitted == {t \in Threads : req[t].sent.submitted}

\* C8: no body handed to the engine is built by interpolating the tenant id:
\* two requests to the same endpoint that differ only in tenant id submit
\* bodies of the same structure.
C8_BodiesHaveOneStructure ==
    \A t1, t2 \in Submitted :
        req[t1].kind = req[t2].kind
            => Structure(req[t1].sent.body) = Structure(req[t2].sent.body)

\* C9: POST /ingest fails, and builds no Point, whenever user_id, measurement
\* or field1 is missing from the payload or field1 is not a number.
C9_IngestValidates ==
    \A t \in Threads :
        (req[t].kind = "ingest" /\ (~HasKeys(req[t].payload) \/ req[t].payload.field1.t # "num"))
            => /\ ~req[t].point.built
               /\ req[t].writeRes = 0
               /\ req[t].pc = "done" => req[t].ret.kind = "raise"

RunReads(r) == {k \in 1..Len(r.calls) : r.calls[k].op = "get_runs"}

\* C10: GET /monitor.  Every get_runs call is for an active task of the
\* listing, asks for one run (limit 1), and no task is read twice; the row of
\* an active task reports the status and start of the most recent run the
\* engine held when it was read, or empty cells (no run yet) when it held
\* none; the row of a task that is not active comes with no get_runs call and
\* with empty run cells.
C10_MonitorReadsLatestRun ==
    \A t \in Threads :
        req[t].kind = "monitor" =>
            LET r == req[t]
                ReadsOf(id) == {k \in RunReads(r) : r.calls[k].arg = <<id>>}
            IN  /\ \A k \in RunReads(r) :
                      /\ r.calls[k].limit = 1
                      /\ \E i \in 1..Len(r.snapshot) :
                            /\ i <= Len(r.rows) + 1
                            /\ r.snapshot[i].status = "active"
                            /\ r.calls[k].arg = <<r.snapshot[i].id>>
                /\ \A i \in 1..Len(r.rows) :
                      LET task == r.snapshot[i]
                          row == r.rows[i]
                      IN  /\ row.name = task.name
                          /\ row.status = task.status
                          /\ IF task.status = "active"
                             THEN /\ Cardinality(ReadsOf(task.id)) = 1
                                  /\ \A k \in ReadsOf(task.id) :
                                        LET seen == r.calls[k].seen
                                        IN  IF seen = <<>>
                                            THEN row.run_status = "" /\ row.started_at = ""
                                            ELSE /\ row.run_status = seen[1].status
                                                 /\ row.started_at = seen[1].started_at
                             ELSE /\ ReadsOf(task.id) = {}
                                  /\ row.run_status = ""
                                  /\ row.started_at = ""

\* a finished report of two tasks: one active, read when the engine held two
\* runs of it, and one that is not active
C10_Witness ==
    \E t \in Threads :
        /\ req[t].kind = "monitor" /\ req[t].pc = "done" /\ req[t].ret.kind = "return"
        /\ Len(req[t].rows) = 2
        /\ \E k \in RunReads(req[t]) : Len(req[t].calls[k].seen) = 2
        /\ \E i \in 1..2 : req[t].snapshot[i].status = "inactive"

====
